---- MODULE Spec2Model ----
(***************************************************************************)
(* Model of src/tools/dataItemsUpdater.js (the XML item importer) and of   *)
(* the admin account handlers addAction / deleteAction that follow it in   *)
(* the same source file.                                                   *)
(***************************************************************************)
EXTENDS Integers, Sequences, FiniteSets, Bags, TLC

\* ------------------------------------------------------------------ bounds
\* files listed in one dataset directory
MaxFiles == 2
\* XML elements (children included) in the whole input of a run
MaxNodes == 2
\* admin requests handled concurrently
MaxReqs == 2

\* ------------------------------------------------------- JavaScript values
\* Attribute values are strings; these three stand for undefined, null, NaN.
Undefined == "<undefined>"
Null == "<null>"
NaN == "<NaN>"

\* process.argv[2]
language == "en"

\* JavaScript truthiness of the values above (ToBoolean on undefined, null,
\* NaN and "" is false; every non-empty string is true).
Falsy(v) == v \in {Undefined, Null, NaN, ""}

\* a || b
OrElse(a, b) == IF Falsy(a) THEN b ELSE a

\* a != b (loose inequality) on strings, undefined and null: undefined and
\* null are loosely equal to each other and to nothing else.
LooseNotEqual(a, b) ==
    IF a \in {Undefined, Null} /\ b \in {Undefined, Null} THEN FALSE ELSE a # b

\* String.prototype.toLowerCase on the strings of the input alphabet.
ToLowerCase(s) ==
    CASE s = "Warrior" -> "warrior"
      [] s = "MALE" -> "male"
      [] s = "DDS" -> "dds"
      [] s = "Sword_Tex" -> "sword_tex"
      [] OTHER -> s

\* s.split(".").at(-1): the part of s after its last "." (s itself without one).
LastDotPart(s) ==
    CASE s = "Icon_Items.Sword_Tex" -> "Sword_Tex"
      [] s = "textures/weapon.SWORD.DDS" -> "DDS"
      [] OTHER -> s

\* Number(s) for an attribute string s or undefined; the result is kept as
\* its decimal numeral, NaN for what is not a number.
NumberOf(s) ==
    CASE s = "1" -> "1"
      [] s = "03" -> "3"
      [] s = "" -> "0"
      [] OTHER -> NaN

\* Number(b) for a boolean b
NumberOfBool(b) == IF b THEN 1 ELSE 0

\* ------------------------------------------------------------- XML input
\* An attribute map is a record over the attribute names the program reads;
\* an attribute the XML element does not carry reads as Undefined, as a
\* missing property does. defined = FALSE is an element without any
\* attribute, for which xml-js sets no `attributes` property at all.
StrAttrs(d, i, s, t) == [defined |-> d, id |-> i, string |-> s, toolTip |-> t]

DataAttrs(d, i, ic, rg, rc, tr) ==
    [defined |-> d, id |-> i, icon |-> ic, rareGrade |-> rg,
     requiredLevel |-> Undefined, requiredClass |-> rc,
     requiredGender |-> Undefined, requiredRace |-> Undefined,
     tradable |-> tr, warehouseStorable |-> Undefined]

ChildAttrs(d, t, c, g) ==
    [defined |-> d, templateId |-> t, class |-> c, gender |-> g, race |-> Undefined]

NoChildren == << >>

\* An element node of xml-js: name, attributes, elements. hasElements = FALSE
\* is a node without `elements` property (an element with no child node).
Node(n, a, he, kids) == [name |-> n, attributes |-> a, hasElements |-> he, elements |-> kids]

\* A property of the element node itself. xml-js nodes carry type, name,
\* attributes and elements only; every other property reads as undefined.
NodeProp(e, p) ==
    CASE p = "name" -> e.name
      [] OTHER -> Undefined

StrElemMenu ==
    { Node("String", StrAttrs(TRUE, "1", "a", "t"), FALSE, NoChildren),
      Node("String", StrAttrs(TRUE, "1", "b", Undefined), FALSE, NoChildren),
      Node("String", StrAttrs(TRUE, "2", "", "t"), FALSE, NoChildren),
      Node("String", StrAttrs(TRUE, "2", Undefined, Undefined), FALSE, NoChildren) }

DataElemMenu ==
    { Node("Item", DataAttrs(TRUE, "1", "Icon_Items.Sword_Tex", "1", "Warrior", "true"), FALSE, NoChildren),
      Node("Item", DataAttrs(TRUE, "1", "textures/weapon.SWORD.DDS", "03", Undefined, "false"), FALSE, NoChildren),
      Node("Item", DataAttrs(TRUE, "2", Undefined, Undefined, Undefined, Undefined), FALSE, NoChildren),
      Node("Item", DataAttrs(FALSE, Undefined, Undefined, Undefined, Undefined, Undefined), FALSE, NoChildren) }

ChildMenu ==
    { Node("FixedItem", ChildAttrs(TRUE, "10", "warrior", Undefined), FALSE, NoChildren),
      Node("FixedItem", ChildAttrs(TRUE, "10", "", "male"), FALSE, NoChildren),
      Node("Comment", ChildAttrs(TRUE, "12", Undefined, Undefined), FALSE, NoChildren),
      Node("FixedItem", ChildAttrs(FALSE, Undefined, Undefined, Undefined), FALSE, NoChildren) }

ConvParentAttrs == [defined |-> TRUE, itemTemplateId |-> "1"]

\* sequences over S of length 1..n
SeqsUpTo(S, n) == UNION { [1..k -> S] : k \in 1..n }

\* conversion elements using at most n nodes (the element and its children)
ConvElems(n) ==
    IF n < 1 THEN {}
    ELSE { Node("ItemConversion", ConvParentAttrs, FALSE, NoChildren) }
         \cup { Node("ItemConversion", ConvParentAttrs, TRUE, kids) : kids \in SeqsUpTo(ChildMenu, n - 1) }

\* number of nodes of a sequence of elements
RECURSIVE NodeCount(_)
NodeCount(es) ==
    IF es = << >> THEN 0
    ELSE 1 + Len(Head(es).elements) + NodeCount(Tail(es))

\* sequences of conversion elements, empty one included, of at most n nodes
RECURSIVE ConvSeqs(_)
ConvSeqs(n) ==
    { << >> } \cup
    UNION { { <<e>> \o rest : rest \in ConvSeqs(n - 1 - Len(e.elements)) } : e \in ConvElems(n) }

\* A directory entry: its extension and, for what readXml makes of it,
\* "ok" (a root with child elements), or "throws" (malformed XML, or a root
\* without child elements, whose data.elements is undefined).
File(ext, kind, es) == [ext |-> ext, kind |-> kind, elements |-> es]

ElemSeqs(d, n) ==
    CASE d = "str" -> SeqsUpTo(StrElemMenu, n)
      [] d = "data" -> SeqsUpTo(DataElemMenu, n)
      [] d = "conv" -> ConvSeqs(n) \ { << >> }

FileChoices(d, n) ==
    { File(".txt", "ok", << >>), File(".xml", "throws", << >>) }
    \cup { File(".xml", "ok", es) : es \in ElemSeqs(d, n) }

Datasets == {"str", "data", "conv"}

\* ------------------------------------------------------------------ state
VARIABLES
    fs,                 \* the three dataset directories, as the runs find them
    budget,             \* XML nodes the input may still turn out to hold
    run,                \* 1: first run of the importer, 2: second run
    pc,                 \* position of the importer script
    opened,             \* the directory of dataset pc exists and is being read
    fileIdx,            \* files of that directory already processed
    collected,          \* datasets whose collection this run has finished
    strSheetElements,   \* line 17
    dataElements,       \* line 18: a Map, kept as the sequence of its entries
    conversionElements, \* line 19
    errors,             \* console.error lines
    reqs,               \* upserts dispatched by this run, in dispatch order
    status,             \* per upsert: "pending", "fulfilled" or "rejected"
    logged,             \* upserts whose "Added:" line was printed
    thrown,             \* the then-callback of authenticate() threw
    db,                 \* the three tables
    dbStart,            \* the tables when this run connected
    dbEnd1,             \* the tables left by the first run
    adm,                \* admin requests in flight
    accounts            \* account tables of the admin portal

impVars == <<fs, budget, run, pc, opened, fileIdx, collected, strSheetElements, dataElements,
             conversionElements, errors, reqs, status, logged, thrown, db, dbStart,
             dbEnd1>>
admVars == <<adm, accounts>>
vars == <<impVars, admVars>>


\* ------------------------------------------------------------- collectors
\* lines 31-35: the StrSheet collector's loop over data.elements. The test
\* reads the property `string` of the element node, not of its attributes.
RECURSIVE CollectStrSheet(_, _)
CollectStrSheet(acc, es) ==
    IF es = << >> THEN acc
    ELSE LET element == Head(es)
         IN  CollectStrSheet(
                 IF LooseNotEqual(NodeProp(element, "string"), "")
                 THEN Append(acc, element.attributes)
                 ELSE acc,
                 Tail(es))

\* MapSet with the first value of a key kept (first-write-wins)
MapSet_KeepFirst(m, k, v) ==
    IF \E i \in 1..Len(m) : m[i].key = k
    THEN m
    ELSE Append(m, [key |-> k, value |-> v])

\* Map.prototype.set on the Map kept as a sequence of entries in insertion
\* order: an existing key keeps its place and takes the new value.
MapSet(m, k, v) ==
    IF \E i \in 1..Len(m) : m[i].key = k
    THEN [i \in 1..Len(m) |-> IF m[i].key = k THEN [key |-> k, value |-> v] ELSE m[i]]
    ELSE Append(m, [key |-> k, value |-> v])

\* line 55: the Data collector's loop. Reading `.id` of the attributes of an
\* element without attributes is a TypeError, which ends the script.
RECURSIVE CollectData(_, _)
CollectData(acc, es) ==
    IF es = << >> THEN [map |-> acc, threw |-> FALSE]
    ELSE LET element == Head(es)
         IN  IF ~element.attributes.defined
             THEN [map |-> acc, threw |-> TRUE]
             ELSE CollectData(MapSet(acc, element.attributes.id, element.attributes), Tail(es))

\* childElement.attributes?.name
OptAttr(a, name) == IF a.defined THEN a[name] ELSE Undefined

\* ConversionRecord with fixedItemTemplateId taken from the parent
ConversionRecord_ParentId(element, childElement) ==
    [itemTemplateId |-> element.attributes.itemTemplateId,
     fixedItemTemplateId |-> element.attributes.itemTemplateId,
     class |-> OrElse(OptAttr(childElement.attributes, "class"), Null),
     gender |-> OrElse(OptAttr(childElement.attributes, "gender"), Null),
     race |-> OrElse(OptAttr(childElement.attributes, "race"), Null)]

\* lines 79-85: the record pushed for one FixedItem child
ConversionRecord(element, childElement) ==
    [itemTemplateId |-> element.attributes.itemTemplateId,
     fixedItemTemplateId |-> childElement.attributes.templateId,
     class |-> OrElse(OptAttr(childElement.attributes, "class"), Null),
     gender |-> OrElse(OptAttr(childElement.attributes, "gender"), Null),
     race |-> OrElse(OptAttr(childElement.attributes, "race"), Null)]

\* lines 77-87: the loop over the children of one conversion element
RECURSIVE CollectChildren(_, _, _)
CollectChildren(acc, element, kids) ==
    IF kids = << >> THEN [list |-> acc, threw |-> FALSE]
    ELSE LET childElement == Head(kids)
         IN  IF childElement.name = "FixedItem"
             THEN IF ~element.attributes.defined \/ ~childElement.attributes.defined
                  THEN [list |-> acc, threw |-> TRUE]
                  ELSE CollectChildren(Append(acc, ConversionRecord(element, childElement)),
                                       element, Tail(kids))
             ELSE CollectChildren(acc, element, Tail(kids))

\* lines 75-89: the Conversion collector's loop over data.elements
RECURSIVE CollectConversion(_, _)
CollectConversion(acc, es) ==
    IF es = << >> THEN [list |-> acc, threw |-> FALSE]
    ELSE LET element == Head(es)
         IN  IF element.hasElements
             THEN LET r == CollectChildren(acc, element, element.elements)
                  IN  IF r.threw THEN r ELSE CollectConversion(r.list, Tail(es))
             ELSE CollectConversion(acc, Tail(es))

\* the dataset collected after d
NextPc(d) ==
    CASE d = "str" -> "data"
      [] d = "data" -> "conv"
      [] d = "conv" -> "auth"

MissingMessage(d) ==
    CASE d = "str" -> "StrSheet directory not found."
      [] d = "data" -> "Data directory not found."
      [] d = "conv" -> "ConversionDirPath directory not found."

\* The next entry of the listing of directory d. The first run finds the
\* input; the second run reads the unchanged input again.
NextFiles(d) ==
    IF run = 1
    THEN IF fileIdx < MaxFiles THEN FileChoices(d, budget) ELSE {}
    ELSE IF fileIdx < Len(fs[d].files) THEN {fs[d].files[fileIdx + 1]} ELSE {}

\* fs and budget after the listing of d turned out to hold f next
Discover(d, f) ==
    /\ fs' = IF run = 1 THEN [fs EXCEPT ![d].files = Append(@, f)] ELSE fs
    /\ budget' = IF run = 1 THEN budget - NodeCount(f.elements) ELSE budget
    /\ fileIdx' = fileIdx + 1

\* lines 23, 47, 67: fs.existsSync of the directory of dataset d; lines 41-43,
\* 61-63, 95-97 when it is missing
OpenDir(d) ==
    /\ pc = d
    /\ ~opened
    /\ \E ex \in (IF run = 1 THEN BOOLEAN ELSE {fs[d].exists}) :
          /\ fs' = [fs EXCEPT ![d].exists = ex]
          /\ IF ex
             THEN /\ opened' = TRUE
                  /\ UNCHANGED <<pc, errors, collected>>
             ELSE /\ opened' = FALSE
                  /\ pc' = NextPc(d)
                  /\ errors' = Append(errors, MissingMessage(d))
                  /\ collected' = collected \cup {d}
    /\ fileIdx' = 0
    /\ UNCHANGED <<budget, run, strSheetElements, dataElements, conversionElements,
                   reqs, status, logged, thrown, db, dbStart, dbEnd1, admVars>>

\* lines 26-40: one pass of strSheetFiles.forEach
LoadStrSheetFile ==
    /\ pc = "str"
    /\ opened
    /\ \E file \in NextFiles("str") :
          /\ Discover("str", file)
          /\ IF file.ext # ".xml"
             THEN UNCHANGED <<pc, strSheetElements>>
             ELSE IF file.kind = "throws"
                  THEN pc' = "crashed" /\ UNCHANGED strSheetElements
                  ELSE /\ strSheetElements' = CollectStrSheet(strSheetElements, file.elements)
                       /\ UNCHANGED pc
    /\ UNCHANGED <<run, opened, collected, dataElements, conversionElements, errors,
                   reqs, status, logged, thrown, db, dbStart, dbEnd1, admVars>>

\* lines 50-60: one pass of the Data directory's forEach
LoadDataFile ==
    /\ pc = "data"
    /\ opened
    /\ \E file \in NextFiles("data") :
          /\ Discover("data", file)
          /\ IF file.ext # ".xml"
             THEN UNCHANGED <<pc, dataElements>>
             ELSE IF file.kind = "throws"
                  THEN pc' = "crashed" /\ UNCHANGED dataElements
                  ELSE LET r == CollectData(dataElements, file.elements)
                       IN  /\ dataElements' = r.map
                           /\ pc' = IF r.threw THEN "crashed" ELSE pc
    /\ UNCHANGED <<run, opened, collected, strSheetElements, conversionElements, errors,
                   reqs, status, logged, thrown, db, dbStart, dbEnd1, admVars>>

\* lines 70-94: one pass of the Conversion directory's forEach
LoadConversionFile ==
    /\ pc = "conv"
    /\ opened
    /\ \E file \in NextFiles("conv") :
          /\ Discover("conv", file)
          /\ IF file.ext # ".xml"
             THEN UNCHANGED <<pc, conversionElements>>
             ELSE IF file.kind = "throws"
                  THEN pc' = "crashed" /\ UNCHANGED conversionElements
                  ELSE LET r == CollectConversion(conversionElements, file.elements)
                       IN  /\ conversionElements' = r.list
                           /\ pc' = IF r.threw THEN "crashed" ELSE pc
    /\ UNCHANGED <<run, opened, collected, strSheetElements, dataElements, errors,
                   reqs, status, logged, thrown, db, dbStart, dbEnd1, admVars>>

\* the forEach over the listing of d returns: the listing held no more files
EndDir(d) ==
    /\ pc = d
    /\ opened
    /\ run = 2 => fileIdx = Len(fs[d].files)
    /\ opened' = FALSE
    /\ pc' = NextPc(d)
    /\ collected' = collected \cup {d}
    /\ UNCHANGED <<fs, budget, run, fileIdx, strSheetElements, dataElements,
                   conversionElements, errors, reqs, status, logged, thrown, db,
                   dbStart, dbEnd1, admVars>>

\* ----------------------------------------------------------- normalizers
\* x?.toString() and x?.toLowerCase() on a string or undefined
OptToString(x) == IF x \in {Undefined, Null} THEN Undefined ELSE x
OptToLowerCase(x) == IF x \in {Undefined, Null} THEN Undefined ELSE ToLowerCase(x)

\* lines 128-132 throw a TypeError for a record that is undefined (itemStrings.id)
\* or has no `string` (itemStrings.string.toString())
StrThrows(itemStrings) == ~itemStrings.defined \/ itemStrings.string \in {Undefined, Null}

\* lines 128-133: the row handed to itemStrings.upsert
NormItemString(itemStrings) ==
    [language |-> language,
     itemTemplateId |-> itemStrings.id,
     string |-> itemStrings.string,
     toolTip |-> OrElse(OptToString(itemStrings.toolTip), "")]

\* line 144 throws a TypeError for a record without `icon` (itemTemplate.icon.split)
DataThrows(itemTemplate) == itemTemplate.icon \in {Undefined, Null}

\* lines 142-152: the row handed to itemTemplates.upsert
NormItemTemplate(itemTemplate) ==
    [itemTemplateId |-> itemTemplate.id,
     icon |-> ToLowerCase(LastDotPart(itemTemplate.icon)),
     rareGrade |-> NumberOf(itemTemplate.rareGrade),
     requiredLevel |-> OrElse(itemTemplate.requiredLevel, Null),
     requiredClass |-> OrElse(OptToLowerCase(itemTemplate.requiredClass), Null),
     requiredGender |-> OrElse(OptToLowerCase(itemTemplate.requiredGender), Null),
     requiredRace |-> OrElse(OptToLowerCase(itemTemplate.requiredRace), Null),
     tradable |-> NumberOfBool(itemTemplate.tradable = "true"),
     warehouseStorable |-> NumberOfBool(itemTemplate.warehouseStorable = "true")]

Request(t, row) == [table |-> t, row |-> row]

\* lines 127-136: strSheetElements.forEach; it stops at the first record
\* whose normalization throws
RECURSIVE DispatchStrings(_, _)
DispatchStrings(acc, list) ==
    IF list = << >> THEN [reqs |-> acc, threw |-> FALSE]
    ELSE IF StrThrows(Head(list)) THEN [reqs |-> acc, threw |-> TRUE]
    ELSE DispatchStrings(Append(acc, Request("itemStrings", NormItemString(Head(list)))), Tail(list))

\* lines 141-155: dataElements.forEach, in the Map's insertion order
RECURSIVE DispatchTemplates(_, _)
DispatchTemplates(acc, entries) ==
    IF entries = << >> THEN [reqs |-> acc, threw |-> FALSE]
    ELSE IF DataThrows(Head(entries).value) THEN [reqs |-> acc, threw |-> TRUE]
    ELSE DispatchTemplates(Append(acc, Request("itemTemplates", NormItemTemplate(Head(entries).value))),
                           Tail(entries))

\* lines 160-164: conversionElements.forEach; the record is passed as it is
RECURSIVE DispatchConversions(_, _)
DispatchConversions(acc, list) ==
    IF list = << >> THEN [reqs |-> acc, threw |-> FALSE]
    ELSE DispatchConversions(Append(acc, Request("itemConversions", Head(list))), Tail(list))

\* lines 121-165: the whole then-callback; an exception leaves it at once
UpsertPhase(strs, data, convs) ==
    LET a == DispatchStrings(<< >>, strs)
        b == IF a.threw THEN a ELSE DispatchTemplates(a.reqs, data)
    IN  IF b.threw THEN b ELSE DispatchConversions(b.reqs, convs)

\* ------------------------------------------------------------- the tables
\* A table is the bag of its rows. The natural key of a row:
KeyOf(t, row) ==
    CASE t = "itemStrings" -> <<row.language, row.itemTemplateId>>
      [] t = "itemTemplates" -> <<row.itemTemplateId>>
      [] t = "itemConversions" -> <<row.itemTemplateId, row.fixedItemTemplateId>>

\* insert, or update the row of the same key
UpsertRow(tbl, t, row) ==
    LET kept == { r \in DOMAIN tbl : KeyOf(t, r) # KeyOf(t, row) }
    IN  [r \in kept \cup {row} |-> IF r = row THEN 1 ELSE tbl[r]]

\* plain insert
InsertRow(tbl, t, row) == tbl (+) SetToBag({row})

EmptyDb == [itemStrings |-> EmptyBag, itemTemplates |-> EmptyBag, itemConversions |-> EmptyBag]

Pending == { i \in 1..Len(reqs) : status[i] = "pending" }
Rejected == { i \in 1..Len(reqs) : status[i] = "rejected" }
Fulfilled == { i \in 1..Len(reqs) : status[i] = "fulfilled" }

\* --------------------------------------------------------- the upsert phase
\* line 121: authenticate() resolves and its then-callback runs to its end
\* (or to its first exception) before any other callback
AuthThen ==
    /\ pc = "auth"
    /\ LET r == UpsertPhase(strSheetElements, dataElements, conversionElements)
       IN  /\ reqs' = r.reqs
           /\ status' = [i \in 1..Len(r.reqs) |-> "pending"]
           /\ thrown' = r.threw
    /\ pc' = "dispatched"
    /\ dbStart' = db
    /\ UNCHANGED <<fs, budget, run, opened, fileIdx, collected, strSheetElements, dataElements,
                   conversionElements, errors, logged, db, dbEnd1, admVars>>

\* AuthFail that runs the upsert phase all the same
AuthFail_Dispatches ==
    /\ pc = "auth"
    /\ LET r == UpsertPhase(strSheetElements, dataElements, conversionElements)
       IN  /\ reqs' = r.reqs
           /\ status' = [i \in 1..Len(r.reqs) |-> "pending"]
           /\ thrown' = r.threw
    /\ pc' = "authFailed"
    /\ UNCHANGED <<fs, budget, run, opened, fileIdx, collected, strSheetElements, dataElements,
                   conversionElements, errors, logged, db, dbStart, dbEnd1, admVars>>

\* line 121: authenticate() rejects; no handler is attached for that
AuthFail ==
    /\ pc = "auth"
    /\ pc' = "authFailed"
    /\ UNCHANGED <<fs, budget, run, opened, fileIdx, collected, strSheetElements, dataElements,
                   conversionElements, errors, reqs, status, logged, thrown, db,
                   dbStart, dbEnd1, admVars>>

\* UpsertFulfil calling create (a plain insert) instead of upsert
UpsertFulfil_Insert(i) ==
    /\ pc = "dispatched"
    /\ i \in Pending
    /\ db' = [db EXCEPT ![reqs[i].table] = InsertRow(@, reqs[i].table, reqs[i].row)]
    /\ status' = [status EXCEPT ![i] = "fulfilled"]
    /\ logged' = logged \cup {i}
    /\ UNCHANGED <<fs, budget, run, pc, opened, fileIdx, collected, strSheetElements, dataElements,
                   conversionElements, errors, reqs, thrown, dbStart, dbEnd1, admVars>>

\* UpsertFulfil emptying the table before it writes the row
UpsertFulfil_Replace(i) ==
    /\ pc = "dispatched"
    /\ i \in Pending
    /\ db' = [db EXCEPT ![reqs[i].table] = SetToBag({reqs[i].row})]
    /\ status' = [status EXCEPT ![i] = "fulfilled"]
    /\ logged' = logged \cup {i}
    /\ UNCHANGED <<fs, budget, run, pc, opened, fileIdx, collected, strSheetElements, dataElements,
                   conversionElements, errors, reqs, thrown, dbStart, dbEnd1, admVars>>

\* lines 128-135, 142-154, 161-163: the database applies upsert i and the
\* promise's then-callback prints the "Added:" line
UpsertFulfil(i) ==
    /\ pc = "dispatched"
    /\ i \in Pending
    /\ db' = [db EXCEPT ![reqs[i].table] = UpsertRow(@, reqs[i].table, reqs[i].row)]
    /\ status' = [status EXCEPT ![i] = "fulfilled"]
    /\ logged' = logged \cup {i}
    /\ UNCHANGED <<fs, budget, run, pc, opened, fileIdx, collected, strSheetElements, dataElements,
                   conversionElements, errors, reqs, thrown, dbStart, dbEnd1, admVars>>

\* the database rejects upsert i; the promise has no rejection handler
UpsertReject(i) ==
    /\ pc = "dispatched"
    /\ i \in Pending
    /\ status' = [status EXCEPT ![i] = "rejected"]
    /\ UNCHANGED <<fs, budget, run, pc, opened, fileIdx, collected, strSheetElements, dataElements,
                   conversionElements, errors, reqs, logged, thrown, db, dbStart, dbEnd1, admVars>>

\* An unhandled rejection (of an upsert, or of the then-callback that threw)
\* ends the process on the runtimes that treat it as fatal; the upserts
\* still pending are never completed.
UnhandledRejectionExit ==
    /\ pc = "dispatched"
    /\ thrown \/ Rejected # {}
    /\ pc' = "exited"
    /\ UNCHANGED <<fs, budget, run, opened, fileIdx, collected, strSheetElements, dataElements,
                   conversionElements, errors, reqs, status, logged, thrown, db, dbStart,
                   dbEnd1, admVars>>

\* every upsert of the run was dispatched and fulfilled
RunCompleted == pc = "dispatched" /\ Fulfilled = 1..Len(reqs)

\* the importer is started a second time, on the unchanged input and the
\* database left by a first run whose upserts all completed
SecondRun ==
    /\ run = 1
    /\ RunCompleted
    /\ run' = 2
    /\ pc' = "str"
    /\ opened' = FALSE
    /\ fileIdx' = 0
    /\ collected' = {}
    /\ strSheetElements' = << >>
    /\ dataElements' = << >>
    /\ conversionElements' = << >>
    /\ errors' = << >>
    /\ reqs' = << >>
    /\ status' = << >>
    /\ logged' = {}
    /\ thrown' = FALSE
    /\ dbEnd1' = db
    /\ UNCHANGED <<fs, budget, db, dbStart, admVars>>

NoDir == [exists |-> FALSE, files |-> << >>]

ImporterInit ==
    /\ fs = [d \in Datasets |-> NoDir]
    /\ budget = MaxNodes
    /\ run = 1
    /\ pc = "str"
    /\ opened = FALSE
    /\ fileIdx = 0
    /\ collected = {}
    /\ strSheetElements = << >>
    /\ dataElements = << >>
    /\ conversionElements = << >>
    /\ errors = << >>
    /\ reqs = << >>
    /\ status = << >>
    /\ logged = {}
    /\ thrown = FALSE
    /\ db = EmptyDb
    /\ dbStart = EmptyDb
    /\ dbEnd1 = EmptyDb

\* ------------------------------------------------- admin account handlers
AccountTables == {"info", "benefits", "characters", "shopAccounts", "promoCodeActivated"}

\* the account tables hold the rows of account "1" when the portal starts
SeededAccounts == [rows |-> [t \in AccountTables |-> {"1"}], created |-> 0]

AdminIdle ==
    /\ adm = << >>
    /\ accounts = SeededAccounts

\* res.render / res.redirect called by request r
Respond(r, what) == [adm EXCEPT ![r].responses = Append(@, what), ![r].pc = "done"]

\* A request for addAction (lines 243-337) or deleteAction (lines 449-493)
\* arrives, with its validation result and body or query.
Receive ==
    /\ Len(adm) < MaxReqs
    /\ \E h \in {"addAction", "deleteAction"}, valid \in BOOLEAN, hasBenefitIds \in BOOLEAN,
          hasAvailableUntils \in BOOLEAN, accountDBID \in {Undefined, "1"} :
          /\ h = "addAction" => accountDBID = Undefined
          /\ h = "deleteAction" => valid /\ ~hasBenefitIds /\ ~hasAvailableUntils
          /\ adm' = Append(adm, [handler |-> h, pc |-> "handler", valid |-> valid,
                                 hasBenefitIds |-> hasBenefitIds,
                                 hasAvailableUntils |-> hasAvailableUntils,
                                 accountDBID |-> accountDBID,
                                 txn |-> "none", created |-> FALSE, responses |-> << >>])
    /\ UNCHANGED <<accounts, impVars>>

\* lines 275-300: the handler of addAction up to the call of transaction()
AddActionHandler(r) ==
    /\ adm[r].handler = "addAction"
    /\ adm[r].pc = "handler"
    /\ adm' = IF ~adm[r].valid
              THEN Respond(r, "render adminAccountsAdd")
              ELSE [adm EXCEPT ![r].pc = "begin"]
    /\ UNCHANGED <<accounts, impVars>>

\* lines 456-463: the handler of deleteAction up to the call of transaction()
DeleteActionHandler(r) ==
    /\ adm[r].handler = "deleteAction"
    /\ adm[r].pc = "handler"
    /\ adm' = IF Falsy(adm[r].accountDBID)
              THEN Respond(r, "redirect /accounts")
              ELSE [adm EXCEPT ![r].pc = "begin"]
    /\ UNCHANGED <<accounts, impVars>>

\* lines 332-335 and 488-491: the catch handler of the transaction's promise
CatchRender(r, txn) ==
    [adm EXCEPT ![r].responses = Append(@, "render adminError"), ![r].pc = "done", ![r].txn = txn]

\* lines 300 and 463: sequelize.transaction() opens the transaction, or fails to
TransactionBegin(r) ==
    /\ adm[r].pc = "begin"
    /\ \E ok \in BOOLEAN :
          adm' = IF ok
                 THEN [adm EXCEPT ![r].txn = "open",
                                  ![r].pc = IF adm[r].handler = "addAction" THEN "create" ELSE "destroy"]
                 ELSE CatchRender(r, "none")
    /\ UNCHANGED <<accounts, impVars>>

\* lines 301-326: info.create and, in its then-callback, the benefits.create
\* calls. availableUntils[i] of an undefined availableUntils is a TypeError.
AddCreate(r) ==
    /\ adm[r].pc = "create"
    /\ \E ok \in BOOLEAN :
          /\ adm' = IF ok /\ ~(adm[r].hasBenefitIds /\ ~adm[r].hasAvailableUntils)
                    THEN [adm EXCEPT ![r].pc = "all", ![r].created = TRUE]
                    ELSE [adm EXCEPT ![r].pc = "rollback", ![r].created = ok]
          /\ accounts' = IF ok THEN [accounts EXCEPT !.created = @ + 1] ELSE accounts
    /\ UNCHANGED impVars

\* lines 464-484: the five destroy calls of deleteAction are issued
DeleteDestroy(r) ==
    /\ adm[r].pc = "destroy"
    /\ adm' = [adm EXCEPT ![r].pc = "all"]
    /\ UNCHANGED <<accounts, impVars>>

\* lines 328-330 and 485-487: Promise.all settles; its then-callback sends the
\* redirect, inside the transaction's callback, before the commit
AllThenRedirect(r) ==
    /\ adm[r].pc = "all"
    /\ \E ok \in BOOLEAN :
          adm' = IF ok \/ (adm[r].handler = "addAction" /\ ~adm[r].hasBenefitIds)
                 THEN [adm EXCEPT ![r].responses = Append(@, "redirect /accounts"), ![r].pc = "commit"]
                 ELSE [adm EXCEPT ![r].pc = "rollback"]
    /\ UNCHANGED <<accounts, impVars>>

\* the rows of the account tables after request r's transaction commits
Committed(r) ==
    IF adm[r].handler = "addAction"
    THEN [accounts EXCEPT !.rows.info = @ \cup {"new"},
                          !.rows.benefits = IF adm[r].hasBenefitIds THEN @ \cup {"new"} ELSE @]
    ELSE [accounts EXCEPT !.rows = [t \in AccountTables |-> @[t] \ {adm[r].accountDBID}]]

\* the callback's promise resolved: sequelize commits; a failed commit rejects
\* the transaction's promise, which runs the catch handler
TransactionCommit(r) ==
    /\ adm[r].pc = "commit"
    /\ \E ok \in BOOLEAN :
          IF ok
          THEN /\ adm' = [adm EXCEPT ![r].txn = "committed", ![r].pc = "done"]
               /\ accounts' = Committed(r)
          ELSE /\ adm' = CatchRender(r, "rolledback")
               /\ UNCHANGED accounts
    /\ UNCHANGED impVars

\* the callback's promise rejected: sequelize rolls back and the catch handler runs
TransactionRollback(r) ==
    /\ adm[r].pc = "rollback"
    /\ adm' = CatchRender(r, "rolledback")
    /\ UNCHANGED <<accounts, impVars>>

AdminNext ==
    \/ Receive
    \/ \E r \in 1..Len(adm) : AddActionHandler(r)
    \/ \E r \in 1..Len(adm) : DeleteActionHandler(r)
    \/ \E r \in 1..Len(adm) : TransactionBegin(r)
    \/ \E r \in 1..Len(adm) : AddCreate(r)
    \/ \E r \in 1..Len(adm) : DeleteDestroy(r)
    \/ \E r \in 1..Len(adm) : AllThenRedirect(r)
    \/ \E r \in 1..Len(adm) : TransactionCommit(r)
    \/ \E r \in 1..Len(adm) : TransactionRollback(r)

Init == ImporterInit /\ AdminIdle

Next ==
    \/ \E d \in Datasets : OpenDir(d)
    \/ LoadStrSheetFile
    \/ LoadDataFile
    \/ LoadConversionFile
    \/ \E d \in Datasets : EndDir(d)
    \/ AuthThen
    \/ AuthFail
    \/ \E i \in 1..Len(reqs) : UpsertFulfil(i)
    \/ \E i \in 1..Len(reqs) : UpsertReject(i)
    \/ UnhandledRejectionExit
    \/ SecondRun

Spec == Init /\ [][Next]_vars

SpecAdmin == Init /\ [][AdminNext]_vars

\* ================================================================ claims
\* the elements of the .xml files of directory d, in listing order
RECURSIVE ElementsOf(_)
ElementsOf(files) ==
    IF files = << >> THEN << >>
    ELSE (IF Head(files).ext = ".xml" THEN Head(files).elements ELSE << >>) \o ElementsOf(Tail(files))

InputElements(d) == ElementsOf(fs[d].files)

UpsertPhaseRan == pc \in {"dispatched", "exited"}

RequestsOf(t) == { i \in 1..Len(reqs) : reqs[i].table = t }

\* C1: a StrSheet element whose `string` attribute is empty is never appended
\* to strSheetElements, no ItemString upsert is issued for it, and no
\* ItemString row with an empty text is written.
C1_EmptyStringsFiltered ==
    /\ \A i \in 1..Len(strSheetElements) : strSheetElements[i].string # ""
    /\ \A i \in RequestsOf("itemStrings") : reqs[i].row.string # ""
    /\ \A row \in DOMAIN db.itemStrings : row.string # ""

\* C2: after the Data collection, dataElements holds exactly one record per
\* distinct id of the input, and it is the attribute map of the last element
\* with that id in listing and element order.
C2_LastWriteWins ==
    "data" \in collected =>
        LET all == InputElements("data")
            last(k) == CHOOSE i \in 1..Len(all) :
                          /\ all[i].attributes.id = k
                          /\ \A j \in 1..Len(all) : all[j].attributes.id = k => j <= i
        IN  /\ \A i, j \in 1..Len(dataElements) :
                   dataElements[i].key = dataElements[j].key => i = j
            /\ { dataElements[i].key : i \in 1..Len(dataElements) }
                   = { all[i].attributes.id : i \in 1..Len(all) }
            /\ \A i \in 1..Len(dataElements) :
                   dataElements[i].value = all[last(dataElements[i].key)].attributes

\* two elements of one id and different attributes, read from two files, left one record
C2_Witness ==
    /\ pc = "auth"
    /\ Len(fs["data"].files) = 2
    /\ \A i \in 1..2 : fs["data"].files[i].ext = ".xml" /\ Len(fs["data"].files[i].elements) = 1
    /\ fs["data"].files[1].elements[1].attributes.id = fs["data"].files[2].elements[1].attributes.id
    /\ fs["data"].files[1].elements[1] # fs["data"].files[2].elements[1]
    /\ Len(dataElements) = 1

\* the FixedItem children of the conversion elements, as pairs, in order
RECURSIVE FixedItemsOf(_)
FixedItemsOf(es) ==
    IF es = << >> THEN << >>
    ELSE LET kids == Head(es).elements
             own == SelectSeq([i \in 1..Len(kids) |-> <<Head(es), kids[i]>>],
                              LAMBDA p : p[2].name = "FixedItem")
         IN  own \o FixedItemsOf(Tail(es))

\* the child's attribute, or null when the child does not carry it
AttrOrNullWhenAbsent(v) == IF v = Undefined THEN Null ELSE v

\* the child's attribute, or null when the child does not carry it or it is empty
AttrOrNullWhenAbsentOrEmpty(v) == IF v = Undefined \/ v = "" THEN Null ELSE v

NoKeyClash ==
    \A i, j \in 1..Len(reqs) :
        (reqs[i].table = reqs[j].table
         /\ KeyOf(reqs[i].table, reqs[i].row) = KeyOf(reqs[j].table, reqs[j].row)) => i = j

\* C4 as stated: when the upserts of the second run have all completed (those
\* of the first did before it started), the tables are as the first run left them.
C4_Idempotent_AsStated ==
    (run = 2 /\ RunCompleted) => db = dbEnd1

\* C4 amended: the same, provided no two upserts of the run target the same
\* natural key of the same table.
C4_Idempotent ==
    (run = 2 /\ RunCompleted /\ NoKeyClash) => db = dbEnd1

\* a second run of two upserts completed on a populated database
C4_Witness ==
    /\ run = 2
    /\ RunCompleted
    /\ NoKeyClash
    /\ Len(reqs) = 2
    /\ db = dbEnd1
    /\ db # EmptyDb

\* C5: with the StrSheet directory missing and the other two present, the
\* upsert phase runs to its end with no ItemString upsert and one upsert per
\* collected Data and Conversion record.
C5_MissingStrSheetDegrades ==
    (UpsertPhaseRan /\ ~fs["str"].exists /\ fs["data"].exists /\ fs["conv"].exists) =>
        /\ ~thrown
        /\ RequestsOf("itemStrings") = {}
        /\ Cardinality(RequestsOf("itemTemplates")) = Len(dataElements)
        /\ Cardinality(RequestsOf("itemConversions")) = Len(conversionElements)

\* the tables as they were when this run started
DbAtStart == IF run = 1 THEN EmptyDb ELSE dbEnd1

\* C6: an upsert is issued, and the tables change, only after all three
\* collections have finished and authentication has succeeded; authentication
\* fails only after the collections ran, and then no upsert is issued.
C6_UpsertsGated ==
    /\ (reqs # << >> \/ db # DbAtStart) => (collected = Datasets /\ UpsertPhaseRan)
    /\ pc \in {"auth", "authFailed"} => collected = Datasets
    /\ pc = "authFailed" => (reqs = << >> /\ db = DbAtStart)

\* authentication failed after records of two datasets had been collected
C6_Witness ==
    /\ pc = "authFailed"
    /\ strSheetElements # << >>
    /\ dataElements # << >>
    /\ reqs = << >>

\* C7: once an upsert is rejected, every other collected record still has its
\* upsert dispatched, the upserts still pending can complete, and the log
\* lacks only the lines of the rejected upserts.
C7_RejectionIsolated ==
    Rejected # {} =>
        /\ Len(reqs) = Len(strSheetElements) + Len(dataElements) + Len(conversionElements)
        /\ \A i \in Pending : ENABLED UpsertFulfil(i)
        /\ logged = Fulfilled

\* the tables after the upserts of set S, applied in dispatch order from n on
RECURSIVE ApplyInOrder(_, _, _)
ApplyInOrder(d, n, S) ==
    IF n > Len(reqs) THEN d
    ELSE ApplyInOrder(
             IF n \in S
             THEN [d EXCEPT ![reqs[n].table] = UpsertRow(@, reqs[n].table, reqs[n].row)]
             ELSE d,
             n + 1, S)

\* C8: when no two dispatched upserts target the same natural key of the same
\* table, the tables are, whatever the order of the completions so far, what
\* the completed upserts give when applied in dispatch order.
C8_OrderIndependent ==
    (pc = "dispatched" /\ NoKeyClash) => db = ApplyInOrder(dbStart, 1, Fulfilled)

\* the upsert dispatched second completed while the first is still pending
C8_Witness ==
    /\ pc = "dispatched"
    /\ NoKeyClash
    /\ Len(reqs) = 2
    /\ reqs[1].table = reqs[2].table
    /\ status[1] = "pending"
    /\ status[2] = "fulfilled"

\* C9: once authentication has succeeded, one upsert has been dispatched for
\* every collected record of each dataset, whatever attributes it carries.
C9_CompleteDispatch ==
    UpsertPhaseRan =>
        /\ ~thrown
        /\ Cardinality(RequestsOf("itemStrings")) = Len(strSheetElements)
        /\ Cardinality(RequestsOf("itemTemplates")) = Len(dataElements)
        /\ Cardinality(RequestsOf("itemConversions")) = Len(conversionElements)

Redirected(r) == \E i \in 1..Len(adm[r].responses) : adm[r].responses[i] = "redirect /accounts"

\* C10: a request of addAction or deleteAction never gets two responses, gets
\* exactly one when its handling is over, and gets the redirect to /accounts
\* only if its transaction, once begun, committed.
C10_OneResponse ==
    \A r \in 1..Len(adm) :
        /\ Len(adm[r].responses) <= 1
        /\ adm[r].pc = "done" =>
              /\ Len(adm[r].responses) = 1
              /\ Redirected(r) => adm[r].txn \in {"none", "committed"}
====
